---- MODULE Spec2Model ----
(***************************************************************************)
(* Model of syre's Python resource objects (resources.py): Container and   *)
(* Asset, their lazy accessors (assets, children, parent) and the          *)
(* deserializer (dict_to_container, dict_to_asset).                        *)
(*                                                                         *)
(* Objects live in two heaps (sequences); an object's identity is its      *)
(* index.  0 stands for Python's None where an object reference is         *)
(* expected; the string "None" stands for None elsewhere.                  *)
(***************************************************************************)
EXTENDS Integers, Sequences, FiniteSets, TLC

\* ---------------------------------------------------------------- bounds
MaxObjects == 7
MaxChildren == 2

None == "None"

\* ------------------------------------------------------- wire records
\* AssetRecord / ContainerRecord values the server (or a caller of the
\* deserializer) may supply.
AssetRecords ==
  << [rid |-> "a1", path |-> "/f.txt",
      properties |-> [name |-> "f", kind |-> None, description |-> None,
                      tags |-> <<"x">>, metadata |-> {}]],
     [rid |-> "a2", path |-> "/g.csv",
      properties |-> [name |-> None, kind |-> "table", description |-> "g",
                      tags |-> <<>>, metadata |-> {<<"k", "v">>}]] >>

ContainerRecords ==
  << [rid |-> "c1",
      properties |-> [name |-> "root", kind |-> None, description |-> None,
                      tags |-> <<>>, metadata |-> {}],
      assets |-> <<AssetRecords[1]>>],
     [rid |-> "c2",
      properties |-> [name |-> "child", kind |-> "group", description |-> "d",
                      tags |-> <<"t", "u">>, metadata |-> {<<"m", "1">>}],
      assets |-> <<AssetRecords[2], AssetRecords[1]>>],
     [rid |-> "c3",
      properties |-> [name |-> None, kind |-> "leaf", description |-> None,
                      tags |-> <<"t">>, metadata |-> {}],
      assets |-> <<AssetRecords[2]>>] >>

RecordIds == 1..Len(ContainerRecords)

\* The session object (class Database, not part of resources.py): project
\* id, root id and the connector.
Database == [project |-> "p", root |-> "c1", root_id |-> "c1"]

\* Values of an entity's _db field: the session, or None.
DbRefs == {"db", None}

\* Values of the SYRE_CONTAINER_ID environment variable.
EnvValues == {None, "c1"}

ErrMsgs == {"x"}

VARIABLES
  containers,   \* heap of Container objects
  assetObjs,    \* heap of Asset objects
  environ,      \* os.environ[SYRE_CONTAINER_ID], or None
  socket,       \* the connector: the responses to the requests sent and not
                \* yet received, each with the request it answers
  last,         \* the last accessor call: its target, what it sent and
                \* received on the connector, and how it ended
  hist          \* how the last accessor call relates to the one before it

vars == <<containers, assetObjs, environ, socket, last, hist>>

\* A signal remembered from the call before instead of read at the call.
dev_mode_remembered == IF last.op = "none" THEN environ = None ELSE last.live

\* common.py: dev_mode()
dev_mode == environ = None

\* ------------------------------------------------------- constructors
\* A constructor that starts with the parent-cache resolved.
Container_parentSet(rid, name, type, description, tags, metadata, assets, db) ==
  [rid |-> rid, name |-> name, type |-> type, description |-> description,
   tags |-> tags, metadata |-> metadata, assets |-> assets,
   db |-> db, parent |-> 0, parent_set |-> TRUE]

\* Container.__init__
Container(rid, name, type, description, tags, metadata, assets, db) ==
  [rid |-> rid, name |-> name, type |-> type, description |-> description,
   tags |-> tags, metadata |-> metadata, assets |-> assets,
   db |-> db, parent |-> 0, parent_set |-> FALSE]

\* Asset.__init__
Asset(rid, file, name, description, type, tags, metadata, db, parent) ==
  [rid |-> rid, file |-> file, name |-> name, type |-> type,
   description |-> description, tags |-> tags, metadata |-> metadata,
   db |-> db, parent |-> parent]

\* A conversion that hands the record's kind to description and its
\* description to type.
dict_to_asset_positional(d, db, parent) ==
  Asset(d.rid, d.path, d.properties.name, d.properties.kind,
        d.properties.description, d.properties.tags, d.properties.metadata,
        db, parent)

\* dict_to_asset
dict_to_asset(d, db, parent) ==
  Asset(d.rid, d.path, d.properties.name, d.properties.description,
        d.properties.kind, d.properties.tags, d.properties.metadata,
        db, parent)

\* A conversion that does not hand the connector on to the Assets.
dict_to_container_assetsUnbound(ch, ah, d, db) ==
  LET self == Len(ch) + 1
      newAssets == [i \in 1..Len(d.assets) |->
                      dict_to_asset(d.assets[i], None, self)]
      container == [Container(d.rid, d.properties.name, d.properties.kind,
                              d.properties.description, d.properties.tags,
                              d.properties.metadata, <<>>, db)
                    EXCEPT !.assets = [i \in 1..Len(d.assets) |-> Len(ah) + i]]
  IN [containers |-> Append(ch, container),
      assetObjs |-> ah \o newAssets,
      obj |-> self]

\* dict_to_container, on heaps ch (Containers) and ah (Assets): the new
\* Container gets the next identity, its Assets the next identities after
\* Len(ah), each with the new Container as parent.
dict_to_container(ch, ah, d, db) ==
  LET self == Len(ch) + 1
      newAssets == [i \in 1..Len(d.assets) |->
                      dict_to_asset(d.assets[i], db, self)]
      container == [Container(d.rid, d.properties.name, d.properties.kind,
                              d.properties.description, d.properties.tags,
                              d.properties.metadata, <<>>, db)
                    EXCEPT !.assets = [i \in 1..Len(d.assets) |-> Len(ah) + i]]
  IN [containers |-> Append(ch, container),
      assetObjs |-> ah \o newAssets,
      obj |-> self]

\* [dict_to_container(child, db) for child in recs]
RECURSIVE DeserializeAll(_, _, _, _)
DeserializeAll(ch, ah, recs, db) ==
  IF recs = <<>>
  THEN [containers |-> ch, assetObjs |-> ah, objs |-> <<>>]
  ELSE LET h == dict_to_container(ch, ah, ContainerRecords[Head(recs)], db)
           t == DeserializeAll(h.containers, h.assetObjs, Tail(recs), db)
       IN [containers |-> t.containers, assetObjs |-> t.assetObjs,
           objs |-> <<h.obj>> \o t.objs]

\* ------------------------------------------------------- the connector
\* What recv_json may yield: nothing (null), {"Err": msg}, {"Ok": payload},
\* or an object with neither key ("empty").  A payload is null, one
\* ContainerRecord ("rec"), a record lacking keys ("bad"), a list of
\* records ("list") or a list holding a record that lacks keys ("badlist").
Resp(tag, msg, kind, recs) == [tag |-> tag, msg |-> msg, kind |-> kind, recs |-> recs]

RecLists ==
  UNION {[1..n -> RecordIds] : n \in 0..MaxChildren}

Responses(lists) ==
  {Resp("null", "", "null", <<>>), Resp("empty", "", "null", <<>>)}
  \cup {Resp("Err", m, "null", <<>>) : m \in ErrMsgs}
  \cup {Resp("Ok", "", k, <<>>) : k \in {"null", "bad", "badlist"}}
  \cup {Resp("Ok", "", "rec", <<r>>) : r \in RecordIds}
  \cup {Resp("Ok", "", "list", l) : l \in lists}

\* Heap room for the objects built from a list of records.
RECURSIVE NumAssets(_)
NumAssets(recs) ==
  IF recs = <<>> THEN 0
  ELSE Len(ContainerRecords[Head(recs)].assets) + NumAssets(Tail(recs))

Fits(recs) ==
  Len(containers) + Len(assetObjs) + Len(recs) + NumAssets(recs) <= MaxObjects

Request(sub, op, project, root, id) ==
  [sub |-> sub, op |-> op, project |-> project, root |-> root, id |-> id]

NoRequest == Request(None, None, None, None, None)

\* An exchange that sends the request twice and receives once.
Exchange_resend(sock, req, resp) ==
  LET q == Append(Append(sock, [req |-> req, resp |-> resp]),
                  [req |-> req, resp |-> resp])
  IN [got |-> Head(q), sock |-> Tail(q)]

\* self._db._socket.send_json(req) followed by self._db._socket.recv_json():
\* the server's response resp to req joins the responses in flight, and
\* the oldest response in flight is received.
Exchange(sock, req, resp) ==
  LET q == Append(sock, [req |-> req, resp |-> resp])
  IN [got |-> Head(q), sock |-> Tail(q)]

\* ------------------------------------------------------- call records
\* A call record: the accessor (op), the object it was called on (self) and
\* that object as it was before the call (pre), dev_mode() at the call, the
\* requests sent, the number of responses received during the call, the
\* response received (resp) and the request it answers (answers), and how
\* it ended: the exception raised ("none" when it returned) with the
\* parts of its message, the value returned (ret: an object, 0 for None; retList: a list) and the source
\* line of the return or raise.
Call(op, self, live, pre) ==
  [op |-> op, self |-> self, live |-> live, pre |-> pre,
   sent |-> <<>>, recvd |-> 0, resp |-> Resp("none", "", "null", <<>>),
   answers |-> NoRequest,
   exc |-> "none", msg |-> <<>>, line |-> 0, ret |-> 0, retList |-> <<>>]

NoCall == Call("none", 0, FALSE, [rid |-> None])

\* The call record after send_json(req) and recv_json(), which yielded got
RoundTrip(call, req, got) ==
  [call EXCEPT !.sent = Append(@, req), !.recvd = @ + 1,
               !.resp = got.resp, !.answers = got.req]

Raise(call, exc, msg, line) == [call EXCEPT !.exc = exc, !.msg = msg, !.line = line]
Return(call, ret, line) == [call EXCEPT !.ret = ret, !.line = line]
ReturnList(call, l, line) == [call EXCEPT !.retList = l, !.line = line]

\* The heaps after dict_to_container on the payload of resp, when resp is
\* {"Ok": <record>}; the heaps as they are otherwise.
Deserialized(resp, db) ==
  IF resp.tag = "Ok" /\ resp.kind = "rec"
  THEN dict_to_container(containers, assetObjs, ContainerRecords[resp.recs[1]], db)
  ELSE [containers |-> containers, assetObjs |-> assetObjs, obj |-> 0]

\* How an accessor call relates to the accessor call before it: how that
\* call ended (prev: "none" when there was none, "ok", "failed"), whether it
\* was the same accessor on the same object (same), and whether dev_mode()
\* differed between the two calls (switched).
NoHist == [prev |-> "none", same |-> FALSE, switched |-> FALSE]

\* The objects a client starts from: an Asset obtained without its
\* Container (dict_to_asset(d, db), parent left None) and a Container
\* obtained from a record (dict_to_container(d, db)), both from the session
\* (db) or both built without one.
Init ==
  /\ \E r \in RecordIds, db \in DbRefs :
       LET h == dict_to_container(<<>>, <<dict_to_asset(AssetRecords[1], db, 0)>>,
                                  ContainerRecords[r], db)
       IN /\ containers = h.containers
          /\ assetObjs = h.assetObjs
  /\ environ \in EnvValues
  /\ socket = <<>>
  /\ last = NoCall
  /\ hist = NoHist

\* The process environment changes: SYRE_CONTAINER_ID is set or unset.
SetEnv(v) ==
  /\ environ # v
  /\ environ' = v
  /\ last' = NoCall
  /\ UNCHANGED <<containers, assetObjs, socket>>

\* Mutant: the connector check is missing.
NoConnector_missing(o) == FALSE

\* `if self._db is None: raise RuntimeError(...)`
NoConnector(o) == o.db = None

\* ------------------------------------------------------ Container.assets
\* Mutant: the mode is not consulted.
AssetsCached_ignoresMode(c) == c.db = None

\* line 93
AssetsCached(c) == c.db = None \/ ~dev_mode

\* Mutant: self takes every field of the deserialized record, keeping only
\* its parent-cache.
AssetsResponse_wholeRecord(c, resp, container) ==
  IF resp.tag = "Ok" /\ resp.kind = "rec"
  THEN [container EXCEPT !.parent = c.parent, !.parent_set = c.parent_set]
  ELSE c

\* lines 98-106: self after the response; container is the deserialized
\* record (line 105), reached only for {"Ok": <record>}.
AssetsResponse(c, resp, container) ==
  IF resp.tag = "Ok" /\ resp.kind = "rec"
  THEN [c EXCEPT !.assets = container.assets]
  ELSE c

\* lines 98-107: how the call ends
AssetsOutcome(io, resp, new) ==
  IF resp.tag = "null" THEN Raise(io, "RuntimeError", <<"Could not get Container">>, 99)
  ELSE IF resp.tag = "Err" THEN Raise(io, "RuntimeError", <<"Error getting container: ", resp.msg>>, 102)
  ELSE IF resp.tag # "Ok" THEN Raise(io, "KeyError", <<"Ok">>, 103)
  ELSE IF resp.kind = "bad" THEN Raise(io, "KeyError", <<"rid">>, 105)
  ELSE IF resp.kind # "rec" THEN Raise(io, "TypeError", <<>>, 105)
  ELSE ReturnList(io, new.assets, 107)

ContainerAssets(self) ==
  LET c == containers[self]
      call == Call("Container.assets", self, dev_mode, c)
  IN IF AssetsCached(c)
     THEN /\ last' = ReturnList(call, c.assets, 94)
          /\ UNCHANGED <<containers, assetObjs, environ, socket>>
     ELSE \E answer \in Responses({<<>>}) :
            LET req == Request("Container", "GetByIdForAnalysis", Database.project, None, c.rid)
                x == Exchange(socket, req, answer)
                resp == x.got.resp
                io == RoundTrip(call, req, x.got)
                h == Deserialized(resp, c.db)
                new == AssetsResponse(c, resp, IF h.obj = 0 THEN c
                                               ELSE h.containers[h.obj])
            IN /\ Fits(resp.recs)
               /\ containers' = [h.containers EXCEPT ![self] = new]
               /\ assetObjs' = h.assetObjs
               /\ last' = AssetsOutcome(io, resp, new)
               /\ socket' = x.sock
               /\ UNCHANGED environ

\* ---------------------------------------------------- Container.children
\* Mutant: the server's message is left out of the error.
ChildrenOutcome_noMessage(io, resp, objs) ==
  IF resp.tag = "null" THEN Raise(io, "TypeError", <<>>, 119)
  ELSE IF resp.tag = "Err"
  THEN Raise(io, "RuntimeError", <<"Could not retrieve children">>, 120)
  ELSE IF resp.tag # "Ok" THEN Raise(io, "KeyError", <<"Ok">>, 122)
  ELSE IF resp.kind = "badlist" THEN Raise(io, "KeyError", <<"rid">>, 122)
  ELSE IF resp.kind # "list" THEN Raise(io, "TypeError", <<>>, 122)
  ELSE ReturnList(io, objs, 123)

\* lines 119-123: how the call ends; objs are the deserialized children
ChildrenOutcome(io, resp, objs) ==
  IF resp.tag = "null" THEN Raise(io, "TypeError", <<>>, 119)
  ELSE IF resp.tag = "Err" THEN Raise(io, "RuntimeError", <<"Could not retrieve children: ", resp.msg>>, 120)
  ELSE IF resp.tag # "Ok" THEN Raise(io, "KeyError", <<"Ok">>, 122)
  ELSE IF resp.kind = "badlist" THEN Raise(io, "KeyError", <<"rid">>, 122)
  ELSE IF resp.kind # "list" THEN Raise(io, "TypeError", <<>>, 122)
  ELSE ReturnList(io, objs, 123)

ContainerChildren(self) ==
  LET c == containers[self]
      call == Call("Container.children", self, dev_mode, c)
  IN IF c.db = None
     THEN \* self._db._socket with self._db None
          /\ last' = Raise(call, "AttributeError", <<"_socket">>, 114)
          /\ UNCHANGED <<containers, assetObjs, environ, socket>>
     ELSE \E answer \in Responses(RecLists) :
            LET req == Request("Graph", "Children", Database.project, None, c.rid)
                x == Exchange(socket, req, answer)
                resp == x.got.resp
                io == RoundTrip(call, req, x.got)
                h == IF resp.tag = "Ok" /\ resp.kind = "list"
                     THEN DeserializeAll(containers, assetObjs, resp.recs, c.db)
                     ELSE [containers |-> containers, assetObjs |-> assetObjs,
                           objs |-> <<>>]
            IN /\ Fits(resp.recs)
               /\ containers' = h.containers
               /\ assetObjs' = h.assetObjs
               /\ last' = ChildrenOutcome(io, resp, h.objs)
               /\ socket' = x.sock
               /\ UNCHANGED environ

\* ------------------------------------------------------ Container.parent
\* Mutant: the cache is trusted in live mode instead of outside it.
ParentCached_inverted(c) == c.parent_set /\ dev_mode

\* Mutant: the cache is trusted in both modes.
ParentCached_ignoresMode(c) == c.parent_set

\* line 134
ParentCached(c) == c.parent_set /\ ~dev_mode

\* Mutant: the id is compared with the wrong field of the session.
IsRoot_wrongField(c) == c.rid = Database.project

\* line 137
IsRoot(c) == c.rid = Database.root_id

\* Mutant: a parent of None is recorded as "not set".
set_parent_noneIsUnset(c, parent) ==
  [c EXCEPT !.parent = parent, !.parent_set = (parent # 0)]

\* Container._set_parent
set_parent(c, parent) == [c EXCEPT !.parent = parent, !.parent_set = TRUE]

\* Mutant: a failure response is recorded as "no parent" before raising.
ParentResponse_errAsNone(c, resp, parent) ==
  IF resp.tag = "Err" \/ (resp.tag = "Ok" /\ resp.kind = "null")
  THEN [c EXCEPT !.parent = 0, !.parent_set = TRUE]
  ELSE IF resp.tag = "Ok" /\ resp.kind = "rec"
  THEN [c EXCEPT !.parent = parent, !.parent_set = TRUE]
  ELSE c

\* lines 146-156: self after the response; parent is the deserialized
\* record (line 155), reached only for {"Ok": <record>}.
ParentResponse(c, resp, parent) ==
  IF resp.tag = "Ok" /\ resp.kind = "null" THEN set_parent(c, 0)
  ELSE IF resp.tag = "Ok" /\ resp.kind = "rec" THEN set_parent(c, parent)
  ELSE c

\* lines 146-157: how the call ends
ParentOutcome(io, resp, parent) ==
  IF resp.tag = "null" THEN Raise(io, "TypeError", <<>>, 147)
  ELSE IF resp.tag = "Err" THEN Raise(io, "RuntimeError", <<"Could not retrieve parent: ", resp.msg>>, 148)
  ELSE IF resp.tag # "Ok" THEN Raise(io, "KeyError", <<"Ok">>, 150)
  ELSE IF resp.kind = "null" THEN Return(io, 0, 153)
  ELSE IF resp.kind = "bad" THEN Raise(io, "KeyError", <<"rid">>, 155)
  ELSE IF resp.kind # "rec" THEN Raise(io, "TypeError", <<>>, 155)
  ELSE Return(io, parent, 157)

\* A request that names the Container itself as the root.
ParentRequest_rootIsSelf(c) ==
  Request("Graph", "Parent", Database.project, c.rid, c.rid)

\* lines 141-145: the Graph.Parent request, with self._db._root as root
ParentRequest(c) ==
  Request("Graph", "Parent", Database.project, Database.root, c.rid)

ContainerParent(self) ==
  LET c == containers[self]
      call == Call("Container.parent", self, dev_mode, c)
  IN IF NoConnector(c)
     THEN /\ last' = Raise(call, "RuntimeError", <<"No database connector">>, 132)
          /\ UNCHANGED <<containers, assetObjs, environ, socket>>
     ELSE IF ParentCached(c)
     THEN /\ last' = Return(call, c.parent, 135)
          /\ UNCHANGED <<containers, assetObjs, environ, socket>>
     ELSE IF IsRoot(c)
     THEN /\ containers' = [containers EXCEPT ![self] = set_parent(c, 0)]
          /\ last' = Return(call, 0, 139)
          /\ UNCHANGED <<assetObjs, environ, socket>>
     ELSE \E answer \in Responses({<<>>}) :
            LET req == ParentRequest(c)
                x == Exchange(socket, req, answer)
                resp == x.got.resp
                io == RoundTrip(call, req, x.got)
                h == Deserialized(resp, c.db)
            IN /\ Fits(resp.recs)
               /\ containers' = [h.containers EXCEPT
                                   ![self] = ParentResponse(c, resp, h.obj)]
               /\ assetObjs' = h.assetObjs
               /\ last' = ParentOutcome(io, resp, h.obj)
               /\ socket' = x.sock
               /\ UNCHANGED environ

\* ---------------------------------------------------------- Asset.parent
\* Mutant: the owning Container is returned only when a connector is bound.
HasParent_needsConnector(a) == a.parent # 0 /\ a.db # None

\* line 251
HasParent(a) == a.parent # 0

\* A response that stored the deserialized Container on the Asset.
AssetParentResponse_stored(a, resp, parent) ==
  IF resp.tag = "Ok" /\ resp.kind = "rec" THEN [a EXCEPT !.parent = parent] ELSE a

\* lines 261-264: the Asset after the response; parent() assigns nothing
\* to self.
AssetParentResponse(a, resp, parent) == a

\* lines 262-264: how the call ends
AssetParentOutcome(io, resp, parent) ==
  IF resp.tag = "null" THEN Raise(io, "TypeError", <<>>, 262)
  ELSE IF resp.tag = "Err" THEN Raise(io, "RuntimeError", <<"Could not retrieve parent: ", resp.msg>>, 263)
  ELSE IF resp.tag # "Ok" THEN Raise(io, "KeyError", <<"Ok">>, 264)
  ELSE IF resp.kind = "bad" THEN Raise(io, "KeyError", <<"rid">>, 264)
  ELSE IF resp.kind # "rec" THEN Raise(io, "TypeError", <<>>, 264)
  ELSE Return(io, parent, 264)

AssetParent(self) ==
  LET a == assetObjs[self]
      call == Call("Asset.parent", self, dev_mode, a)
  IN IF HasParent(a)
     THEN /\ last' = Return(call, a.parent, 252)
          /\ UNCHANGED <<containers, assetObjs, environ, socket>>
     ELSE IF NoConnector(a)
     THEN /\ last' = Raise(call, "RuntimeError", <<"No database connector">>, 255)
          /\ UNCHANGED <<containers, assetObjs, environ, socket>>
     ELSE \E answer \in Responses({<<>>}) :
            LET req == Request("Asset", "Parent", Database.project, None, a.rid)
                x == Exchange(socket, req, answer)
                resp == x.got.resp
                io == RoundTrip(call, req, x.got)
                h == Deserialized(resp, a.db)
            IN /\ Fits(resp.recs)
               /\ containers' = h.containers
               /\ assetObjs' = [h.assetObjs EXCEPT
                                  ![self] = AssetParentResponse(a, resp, h.obj)]
               /\ last' = AssetParentOutcome(io, resp, h.obj)
               /\ socket' = x.sock
               /\ UNCHANGED environ

\* ------------------------------------------------------------------ Next
Next ==
  \/ (\E v \in EnvValues : SetEnv(v)) /\ UNCHANGED hist
  \/ (\E self \in 1..Len(containers) : ContainerAssets(self)) /\ UNCHANGED hist
  \/ (\E self \in 1..Len(containers) : ContainerChildren(self)) /\ UNCHANGED hist
  \/ (\E self \in 1..Len(containers) : ContainerParent(self)) /\ UNCHANGED hist
  \/ (\E self \in 1..Len(assetObjs) : AssetParent(self)) /\ UNCHANGED hist

Spec == Init /\ [][Next]_vars

\* ------------------------------------------- sequences of accessor calls
\* The same accessors with each call related to the call before it; the
\* call record outlives a change of the environment.
Track ==
  hist' = [prev |-> IF last.op = "none" THEN "none"
                    ELSE IF last.exc = "none" THEN "ok" ELSE "failed",
           same |-> last.op = last'.op /\ last.self = last'.self,
           switched |-> last.op # "none" /\ last.live # last'.live]

\* The client of this specification stops creating objects at MaxObjectsH.
MaxObjectsH == 5

Bounded == Len(containers') + Len(assetObjs') <= MaxObjectsH

SetEnvH(v) ==
  /\ environ # v
  /\ environ' = v
  /\ UNCHANGED <<containers, assetObjs, socket, last, hist>>

\* A client that starts from a Container and an Asset of the session.
InitH ==
  /\ Init
  /\ containers[1].db # None
  /\ containers[1].rid = "c3"

NextH ==
  \/ \E v \in EnvValues : SetEnvH(v)
  \/ (\E self \in 1..Len(containers) : ContainerAssets(self)) /\ Bounded /\ Track
  \/ (\E self \in 1..Len(containers) : ContainerChildren(self)) /\ Bounded /\ Track
  \/ (\E self \in 1..Len(containers) : ContainerParent(self)) /\ Bounded /\ Track
  \/ (\E self \in 1..Len(assetObjs) : AssetParent(self)) /\ Bounded /\ Track

SpecH == InitH /\ [][NextH]_vars


\* ================================================================ claims
ContainerIds == 1..Len(containers)
AssetIds == 1..Len(assetObjs)
Elems(seq) == {seq[i] : i \in 1..Len(seq)}

\* The parent-cache of Container c (_parent_set, _parent) as a tri-state.
ParentCache(c) ==
  IF ~c.parent_set THEN "Unknown"
  ELSE IF c.parent = 0 THEN "ResolvedNone" ELSE "ResolvedSome"

ConfigurationError(call) ==
  call.exc = "RuntimeError" /\ call.msg = <<"No database connector">>

\* C1: every Asset in a Container's asset list, asked for its parent,
\* returns that very Container, with no request sent.
C1_EagerOwnership ==
  \A c \in ContainerIds : \A a \in Elems(containers[c].assets) :
    (last.op = "Asset.parent" /\ last.self = a)
      => (last.exc = "none" /\ last.ret = c /\ last.sent = <<>>)

\* C2: no Asset is in the asset list of two distinct Container instances.
C2_ExclusiveOwnership ==
  \A c, d \in ContainerIds :
    c # d => Elems(containers[c].assets) \cap Elems(containers[d].assets) = {}

\* A call of Container.parent() on a connector-bound Container whose id is
\* the session's root id.
RootParentCall ==
  /\ last.op = "Container.parent"
  /\ last.pre.db # None
  /\ last.pre.rid = Database.root_id

\* C3 (as claimed): parent() on a root Container returns None, sends
\* nothing and leaves the cache ResolvedNone, in every cache state, the call
\* being decided by the root check (line 139) before the cache is consulted.
C3_RootCheckFirst ==
  RootParentCall =>
    /\ last.exc = "none" /\ last.ret = 0
    /\ last.sent = <<>> /\ last.recvd = 0
    /\ ParentCache(containers[last.self]) = "ResolvedNone"
    /\ last.line = 139

\* C3 (amended): parent() on a root Container returns None, sends nothing
\* and leaves the cache ResolvedNone, in both modes; its cache is never
\* ResolvedSome; outside live mode with the cache resolved the cached None
\* is returned (line 135) without the root check, otherwise the root check
\* decides (line 139).
C3_RootSentinel ==
  RootParentCall =>
    /\ last.exc = "none" /\ last.ret = 0
    /\ last.sent = <<>> /\ last.recvd = 0
    /\ ParentCache(containers[last.self]) = "ResolvedNone"
    /\ ParentCache(last.pre) # "ResolvedSome"
    /\ last.line = (IF last.pre.parent_set /\ ~last.live THEN 135 ELSE 139)

C3_Witness ==
  /\ RootParentCall
  /\ ~last.live
  /\ ParentCache(last.pre) = "ResolvedNone"
  /\ last.ret = 0 /\ last.line = 135

\* C4: a resolved parent-cache is never Unknown again, and the cache of a
\* Container changes only in a call of Container.parent() on it.
C4_CacheForwardOnly ==
  [][\A c \in ContainerIds :
       /\ containers[c].parent_set => containers'[c].parent_set
       /\ (\/ containers'[c].parent_set # containers[c].parent_set
           \/ containers'[c].parent # containers[c].parent)
            => (last'.op = "Container.parent" /\ last'.self = c)]_vars

C4_Witness ==
  /\ last.op = "Container.assets"
  /\ last.exc = "none" /\ last.sent # <<>>
  /\ ParentCache(last.pre) = "ResolvedSome"
  /\ ParentCache(containers[last.self]) = "ResolvedSome"

\* C5: when assets() or Container.parent() fails after sending its
\* request, the Container is exactly as it was before the call.
C5_FailedFetchKeepsState ==
  (/\ last.op \in {"Container.assets", "Container.parent"}
   /\ last.exc # "none"
   /\ last.sent # <<>>)
    => containers[last.self] = last.pre

C5_Witness ==
  /\ last.op = "Container.parent"
  /\ last.exc = "RuntimeError" /\ last.resp.tag = "Err"
  /\ last.sent # <<>>
  /\ ParentCache(last.pre) = "ResolvedSome"
  /\ containers[last.self] = last.pre

\* C6: outside live mode, Container.parent() on a Container whose cache is
\* resolved returns the cached value, sends nothing and leaves the cache
\* as it was.
C6_CachedParentOutsideLive ==
  (/\ last.op = "Container.parent"
   /\ ~last.live
   /\ last.pre.parent_set)
    => /\ last.exc = "none" /\ last.ret = last.pre.parent
       /\ last.sent = <<>> /\ last.recvd = 0
       /\ containers[last.self] = last.pre

C6_Witness ==
  /\ last.op = "Container.parent"
  /\ ~last.live
  /\ ParentCache(last.pre) = "ResolvedSome"
  /\ last.ret = last.pre.parent

\* C7: in live mode, Container.parent() on a Container whose cache is
\* ResolvedSome(X) sends exactly one Graph.Parent request for that
\* Container, and on success the cache holds the newly resolved value (None
\* or a new Container, never the old X).
C7_LiveParentRefetches ==
  (/\ last.op = "Container.parent"
   /\ last.live
   /\ ParentCache(last.pre) = "ResolvedSome")
    => /\ Len(last.sent) = 1 /\ last.recvd = 1
       /\ last.sent[1].sub = "Graph" /\ last.sent[1].op = "Parent"
       /\ last.sent[1].id = last.pre.rid
       /\ last.exc = "none" =>
            /\ containers[last.self].parent_set
            /\ containers[last.self].parent = last.ret
            /\ last.ret # last.pre.parent

C7_Witness ==
  /\ last.op = "Container.parent"
  /\ last.live
  /\ ParentCache(last.pre) = "ResolvedSome"
  /\ last.exc = "none" /\ last.ret # 0
  /\ containers[last.self].parent = last.ret

\* C8: Container.parent() without a connector, and Asset.parent() without
\* an owning Container and without a connector, raise the "No database
\* connector" error, send nothing and change nothing.
C8_NoConnectorParent ==
  [][(\/ last'.op = "Container.parent" /\ last'.pre.db = None
      \/ /\ last'.op = "Asset.parent"
         /\ last'.pre.parent = 0 /\ last'.pre.db = None)
       => /\ ConfigurationError(last')
          /\ last'.sent = <<>> /\ last'.recvd = 0
          /\ UNCHANGED <<containers, assetObjs, environ, socket>>]_vars

C8_Witness ==
  /\ last.op = "Asset.parent"
  /\ last.pre.parent = 0 /\ last.pre.db = None
  /\ ConfigurationError(last)
  /\ last.line = 255

\* C9: Container.children() without a connector raises the same "No
\* database connector" error as parent() and sends nothing.
C9_NoConnectorChildren ==
  (last.op = "Container.children" /\ last.pre.db = None)
    => (ConfigurationError(last) /\ last.sent = <<>>)

\* C10: assets() without a connector, or outside live mode, returns the
\* cached asset list, sends nothing and leaves the Container as it was.
C10_CachedAssets ==
  (/\ last.op = "Container.assets"
   /\ (last.pre.db = None \/ ~last.live))
    => /\ last.exc = "none" /\ last.retList = last.pre.assets
       /\ last.sent = <<>> /\ last.recvd = 0
       /\ containers[last.self] = last.pre

C10_Witness ==
  /\ last.op = "Container.assets"
  /\ last.pre.db # None /\ ~last.live
  /\ last.retList = last.pre.assets /\ last.retList # <<>>
  /\ last.sent = <<>>

\* The rids of a list of Asset objects / of a list of AssetRecords.
AssetRids(l) == [i \in 1..Len(l) |-> assetObjs[l[i]].rid]
RecordRids(recs) == [i \in 1..Len(recs) |-> recs[i].rid]

\* C11: a successful live-mode assets() sends exactly one
\* GetByIdForAnalysis request (project, this Container's id) and replaces
\* only the asset list, by the list of the freshly deserialized Container;
\* every other field of the Container is as before the call.
C11_RefreshOnlyAssets ==
  (/\ last.op = "Container.assets"
   /\ last.live /\ last.pre.db # None
   /\ last.exc = "none")
    => /\ last.sent = <<Request("Container", "GetByIdForAnalysis",
                                Database.project, None, last.pre.rid)>>
       /\ last.recvd = 1
       /\ containers[last.self] = [last.pre EXCEPT !.assets = last.retList]
       /\ last.retList = containers[Len(containers)].assets
       /\ last.self # Len(containers)
       /\ AssetRids(last.retList)
            = RecordRids(ContainerRecords[last.resp.recs[1]].assets)

C11_Witness ==
  /\ last.op = "Container.assets"
  /\ last.live /\ last.exc = "none"
  /\ Len(last.sent) = 1
  /\ ParentCache(last.pre) = "ResolvedSome"
  /\ last.retList # last.pre.assets
  /\ containers[last.self].name # ContainerRecords[last.resp.recs[1]].properties.name

\* C12: children() never changes the Container it is called on; when the
\* response is {"Err": m} it raises the Remote error whose message carries m.
C12_ChildrenErrorIsolation ==
  last.op = "Container.children"
    => /\ containers[last.self] = last.pre
       /\ last.resp.tag = "Err"
            => /\ last.exc = "RuntimeError"
               /\ last.msg = <<"Could not retrieve children: ", last.resp.msg>>
               /\ last.line = 120

C12_Witness ==
  /\ last.op = "Container.children"
  /\ last.resp.tag = "Err" /\ last.resp.msg = "x"
  /\ last.exc = "RuntimeError"
  /\ ParentCache(last.pre) = "ResolvedSome"
  /\ last.pre.assets # <<>>
  /\ containers[last.self] = last.pre

\* C13: Asset.parent() on an Asset whose owning Container was set at
\* construction returns it, in both modes and with or without a connector,
\* sends nothing and changes nothing; and no step ever changes the owning
\* Container of an Asset.
C13_OwningReferenceAuthoritative ==
  [][/\ (last'.op = "Asset.parent" /\ last'.pre.parent # 0)
          => /\ last'.exc = "none" /\ last'.ret = last'.pre.parent
             /\ last'.sent = <<>> /\ last'.recvd = 0
             /\ UNCHANGED <<containers, assetObjs, environ, socket>>
     /\ \A a \in AssetIds : assetObjs'[a].parent = assetObjs[a].parent]_vars

C13_Witness ==
  /\ last.op = "Asset.parent"
  /\ last.pre.parent # 0 /\ last.pre.db = None
  /\ last.live
  /\ last.exc = "none" /\ last.ret = last.pre.parent
  /\ last.line = 252

\* C14: an Asset with a connector and no owning Container sends exactly one
\* Asset.Parent request for its own id on every call of parent(), in live
\* and non-live mode and after earlier calls that succeeded, and the call
\* leaves the Asset as it was: the result is not stored.
C14_AssetParentNeverCached ==
  (/\ last.op = "Asset.parent"
   /\ last.pre.parent = 0
   /\ last.pre.db # None)
    => /\ last.sent = <<Request("Asset", "Parent", Database.project, None, last.pre.rid)>>
       /\ last.recvd = 1
       /\ assetObjs[last.self] = last.pre

\* The same Asset asked again, outside live mode, after a call that returned
\* its Container: a request is sent again.
C14_Witness ==
  /\ last.op = "Asset.parent"
  /\ last.pre.parent = 0
  /\ last.pre.db # None
  /\ ~last.live
  /\ hist.same
  /\ hist.prev = "ok"
  /\ Len(last.sent) = 1

\* C15: an accessor call sends nothing and receives nothing, or sends one
\* request and then receives one response, which is the response to that
\* request; between calls no response is in flight on the connector.
C15_RequestResponseDiscipline ==
  /\ socket = <<>>
  /\ Len(last.sent) <= 1
  /\ last.recvd = Len(last.sent)
  /\ last.sent = <<>> => last.answers = NoRequest
  /\ last.sent # <<>> => last.answers = last.sent[1]

\* A call that gets the response to its own request right after the same
\* call on the same Asset failed after its exchange.
C15_Witness ==
  /\ last.op = "Asset.parent"
  /\ last.pre.parent = 0
  /\ last.pre.db # None
  /\ hist.same
  /\ hist.prev = "failed"
  /\ last.exc = "none"
  /\ last.sent # <<>>
  /\ last.answers = last.sent[1]

\* The record that reading the accessors of an Asset (rid, file, name,
\* type, description, tags, metadata) gives back.
AssetRecordOf(a) ==
  [rid |-> a.rid, path |-> a.file,
   properties |-> [name |-> a.name, kind |-> a.type,
                   description |-> a.description, tags |-> a.tags,
                   metadata |-> a.metadata]]

AssetRecordsOf(l) == [i \in 1..Len(l) |-> AssetRecordOf(assetObjs[l[i]])]

\* The properties that reading the accessors of a Container gives back.
PropertiesOf(c) ==
  [name |-> c.name, kind |-> c.type, description |-> c.description,
   tags |-> c.tags, metadata |-> c.metadata]

\* The ContainerRecord with id rid.
RecordOf(rid) ==
  ContainerRecords[CHOOSE r \in RecordIds : ContainerRecords[r].rid = rid]

\* The asset list of Container c is the one it was deserialized with.
AsDeserialized(c, l) == \A a \in Elems(l) : assetObjs[a].parent = c

\* C16 as stated: reading assets on a deserialized Container reproduces the
\* AssetRecords of its record, whatever the mode and the connector.
C16_RoundTripEveryMode ==
  (/\ last.op = "Container.assets"
   /\ AsDeserialized(last.self, last.pre.assets))
    => /\ last.exc = "none"
       /\ AssetRecordsOf(last.retList) = RecordOf(last.pre.rid).assets

\* C16: every Container reproduces the properties of its record (type is
\* the record's kind), and its deserialized asset list reproduces the
\* record's AssetRecords in order (rid, path, properties); the assets
\* accessor yields that list whenever it sends no request, that is with no
\* connector or outside live mode.
C16_RoundTrip ==
  /\ \A c \in ContainerIds :
       /\ PropertiesOf(containers[c]) = RecordOf(containers[c].rid).properties
       /\ AsDeserialized(c, containers[c].assets)
            => AssetRecordsOf(containers[c].assets)
                 = RecordOf(containers[c].rid).assets
  /\ (last.op = "Container.assets" /\ last.sent = <<>>)
       => /\ last.exc = "none"
          /\ last.retList = last.pre.assets
          /\ containers[last.self] = last.pre

\* assets read outside live mode on a connector-bound Container that was
\* deserialized from a record with two AssetRecords.
C16_Witness ==
  /\ last.op = "Container.assets"
  /\ ~last.live
  /\ last.pre.db # None
  /\ AsDeserialized(last.self, last.pre.assets)
  /\ Len(last.retList) = 2
  /\ AssetRecordsOf(last.retList) = RecordOf(last.pre.rid).assets
  /\ last.pre.type = "group"

\* C17: every accessor call decides between cache and request from the
\* live-mode signal holding at that call, whatever it was at earlier calls:
\* with a connector, assets() sends a request exactly when the signal holds,
\* and parent() on a non-root Container sends none exactly when the signal
\* does not hold and the cache is resolved, returning the stored value.
C17_ModeReadAtEachCall ==
  [][environ' = environ =>
       LET call == last'
           live == environ = None
       IN /\ call.live = live
          /\ (call.op = "Container.assets" /\ call.pre.db # None)
               => (call.sent = <<>> <=> ~live)
          /\ (call.op = "Container.parent" /\ call.pre.db # None
                /\ ~IsRoot(call.pre))
               => /\ call.sent = <<>> <=> (~live /\ call.pre.parent_set)
                  /\ call.sent = <<>>
                       => (call.exc = "none" /\ call.ret = call.pre.parent)]_vars

\* parent() in live mode, right after the same call outside live mode
\* returned the stored Container: a request is sent although the cache is
\* resolved.
C17_Witness ==
  /\ last.op = "Container.parent"
  /\ last.live
  /\ hist.switched
  /\ hist.same
  /\ hist.prev = "ok"
  /\ last.pre.parent_set
  /\ last.pre.parent # 0
  /\ Len(last.sent) = 1

C19_ChildrenNeverCached ==
  /\ (last.op = "Container.children" /\ last.pre.db # None)
       => /\ last.sent = <<Request("Graph", "Children", Database.project,
                                   None, last.pre.rid)>>
          /\ last.recvd = 1
          /\ last.exc = "none"
               => /\ Len(last.retList) = Len(last.resp.recs)
                  /\ \A i \in 1..Len(last.retList) :
                       LET child == containers[last.retList[i]]
                       IN /\ child.rid = ContainerRecords[last.resp.recs[i]].rid
                          /\ ParentCache(child) = "Unknown"
                          /\ \A j \in 1..Len(last.retList) :
                               i # j => last.retList[i] # last.retList[j]
  /\ (/\ last.op = "Container.parent"
      /\ last.pre.db # None
      /\ ParentCache(last.pre) = "Unknown"
      /\ ~IsRoot(last.pre))
       => last.sent = <<ParentRequest(last.pre)>>

\* children() outside live mode returns two Containers in the order of the
\* response, the first a non-root Container with parent-cache Unknown.
C19_Witness ==
  /\ last.op = "Container.children"
  /\ ~last.live
  /\ Len(last.sent) = 1
  /\ last.exc = "none"
  /\ Len(last.retList) = 2
  /\ containers[last.retList[1]].rid = "c3"
  /\ containers[last.retList[2]].rid = "c1"
  /\ ~IsRoot(containers[last.retList[1]])
  /\ ParentCache(containers[last.retList[1]]) = "Unknown"

\* C20: every Container and Asset that an accessor call creates has the
\* connector of the entity the accessor was called on, and so has every
\* entity the call returns; a call on a connector-bound entity never raises
\* the Configuration error; a Container with no connector has parent-cache
\* Unknown.
C20_ConnectorPropagation ==
  [][/\ \A c \in (Len(containers) + 1)..Len(containers') :
          containers'[c].db = last'.pre.db
     /\ \A a \in (Len(assetObjs) + 1)..Len(assetObjs') :
          assetObjs'[a].db = last'.pre.db
     /\ last'.op \in {"Container.parent", "Asset.parent"} /\ last'.ret # 0
          => /\ containers'[last'.ret].db = last'.pre.db
             /\ \A a \in Elems(containers'[last'.ret].assets) :
                  assetObjs'[a].db = last'.pre.db
     /\ last'.op = "Container.children"
          => \A c \in Elems(last'.retList) :
               /\ containers'[c].db = last'.pre.db
               /\ \A a \in Elems(containers'[c].assets) :
                    assetObjs'[a].db = last'.pre.db
     /\ last'.op = "Container.assets"
          => \A a \in Elems(last'.retList) : assetObjs'[a].db = last'.pre.db
     /\ (last'.op # "none" /\ last'.pre.db # None) => ~ConfigurationError(last')
     /\ \A c \in 1..Len(containers') :
          containers'[c].db = None => ParentCache(containers'[c]) = "Unknown"]_vars

\* parent() succeeds, after a request, on an Asset that an earlier accessor
\* call on a connector-bound entity deserialized.
C20_Witness ==
  /\ last.op = "Asset.parent"
  /\ last.self > Len(containers[1].assets) + 1
  /\ last.pre.db # None
  /\ last.exc = "none"
  /\ last.ret # 0
  /\ containers[last.ret].db = last.pre.db

====
